---- MODULE Spec2Model ----
(***************************************************************************)
(* Scheduled publishing of the Chaishorts CMS.                             *)
(*                                                                         *)
(* The repository holds several revisions of the publish worker and of the *)
(* lesson handlers.  The variable impl selects the revision a behaviour    *)
(* runs; every operation is translated once per revision:                  *)
(*   "srvBulk"   unnamed/part_000:401-469 (guard, CURRENT_TIMESTAMP, one   *)
(*               bulk program cascade) with the handlers of :605-692       *)
(*   "srvClock"  unnamed/part_001:79-142 (guard, clock_timestamp(),        *)
(*               per-lesson cascade) with the handlers of :282-302         *)
(*   "srvPlain"  server.js:79-120 (no guard, NOW(), per-lesson cascade)    *)
(*               with the handlers of :262-281                             *)
(*   "local"     unnamed/part_002 (localStorage Database)                  *)
(*   "localOld"  store.ts:345-552 (first localStorage Database)            *)
(*                                                                         *)
(* The Postgres store is modelled at READ COMMITTED: a transaction keeps   *)
(* its uncommitted row versions (wL, wP), which are also its row locks; a  *)
(* statement reads the committed rows overlaid with the transaction's own  *)
(* writes; a writer of a row locked by another transaction waits.          *)
(* Timestamps are naturals, 0 is NULL.                                     *)
(***************************************************************************)
EXTENDS Integers, Sequences, FiniteSets, TLC

MaxTime == 2
NumLessons == 2
NumSlots == 2
NumEdited == 1

Programs == {1}
Terms == {1, 2}
Lessons == 1..NumLessons
Slots == 1..NumSlots
Times == 1..MaxTime
NULL == 0
\* cleanNow while a cycle that has read the lessons is not yet committed
Reading == MaxTime + 1

Statuses == {"draft", "scheduled", "published", "archived"}

\* what an editor's request carries: status and publish_at; publishing a
\* lesson by hand keeps the publish_at the lesson object holds
EditorInputs ==
  {<<st, t>> : st \in {"scheduled", "published"}, t \in Times \cup {NULL}}
    \cup {<<st, NULL>> : st \in {"draft", "archived"}}

\* The lessons up to NumEdited are created and saved with any of the inputs;
\* the lessons above it are created scheduled with a release instant and are
\* not saved again.
Editable(l) == l <= NumEdited
PostInputs(l) == IF Editable(l) THEN EditorInputs ELSE {<<"scheduled", t>> : t \in Times}
PutInputs(l) == IF Editable(l) THEN EditorInputs ELSE {}

ServerImpls == {"srvBulk", "srvClock", "srvPlain"}
LocalImpls == {"local", "localOld"}

\* the revisions that declare let workerRunning = false
Guarded(i) == i \in {"srvBulk", "srvClock"}

GuardNeverBlocks(i, g) == FALSE

\* if (workerRunning) return;
GuardBlocks(i, g) == Guarded(i) /\ g

\* lesson ids are generated by the client; id l is always posted for this term
TermOfLesson(l) == ((l - 1) % Cardinality(Terms)) + 1

VARIABLES
  impl,           \* the revision of the code this behaviour runs
  clock,          \* the wall clock (database and application)
  lessons,        \* committed lessons table / Database.lessons
  programs,       \* committed programs table / Database.programs
  termProgram,    \* terms.program_id, NULL allowed by the schema
  workerRunning,  \* the module-level guard flag
  inv,            \* the invocations of runWorker in flight, per slot
  pending,        \* lesson handlers between their lesson and program statements
  ticksOverlap,   \* whether the timer fires again while a cycle is running
  catalog,        \* the store GET /catalog/programs reads, its last request and response
  tables,         \* term rows, numbered lesson rows and asset rows, and the last call's outcome
  db,             \* the Database object of the client: its lists and its reload rounds
  cleanNow,       \* history: now of the last committed cycle not followed by a lesson edit
  republished     \* history: a cascade has published a program that had a published_at

vars == <<impl, clock, lessons, programs, termProgram, workerRunning, inv,
          pending, ticksOverlap, catalog, tables, db, cleanNow, republished>>

\* chosen when the behaviour starts
fixed == <<impl, termProgram, ticksOverlap, catalog, tables, db>>

\* the Database object holds nothing and loads nothing
NoDb == [programs |-> {}, terms |-> {}, lessons |-> {}, server |-> {}, acked |-> {},
         sent |-> {}, rounds |-> << >>, isInitialized |-> FALSE, initPromise |-> 0,
         result |-> "none"]

\* no term, numbered lesson or asset row is stored and no call has been made
NoTables == [terms |-> {}, lessons |-> {}, assets |-> {}, cache |-> {}, result |-> "none"]

\* no catalog request has been made or answered
NoRequest == [cursor |-> [nan |-> TRUE, value |-> 0],
              limit |-> [nan |-> TRUE, value |-> 0], topic |-> FALSE]
NoResponse == [status |-> 0, data |-> << >>, next_cursor |-> 0, total |-> 0, limit |-> 0]
\* no client is paging through the catalog
NoWalk == [active |-> FALSE, rows |-> << >>]
NoCatalog == [store |-> << >>, request |-> NoRequest, response |-> NoResponse,
              walk |-> NoWalk]

NoLesson == [status |-> "none", publish_at |-> NULL, published_at |-> NULL,
             updated_at |-> NULL]

\* a transaction without uncommitted writes
NoWrites == [k \in {} |-> NULL]

\* batch: the lessons the ended transaction had updated, kept until finally
IdleSlot == [pc |-> "idle", now |-> NULL, todo |-> {}, batch |-> {},
             wL |-> NoWrites, wP |-> NoWrites, outcome |-> "none",
             rejected |-> FALSE]

Present(l) == lessons[l].status # "none"

\* updated_at = NOW() / new Date().toISOString()
Stamp(now) == now

\* COALESCE(a, b) / a || b
Coalesce(a, b) == IF a # NULL THEN a ELSE b

\* a program that was not published and had a published_at is published in new
Republishes(old, new) ==
  \E p \in DOMAIN old : /\ old[p].published_at # NULL
                        /\ old[p].status # "published"
                        /\ new[p].status = "published"

(***************************************************************************)
(* The store as one transaction sees it.                                   *)
(***************************************************************************)
Overlay(committed, w) ==
  [k \in DOMAIN committed |-> IF k \in DOMAIN w THEN w[k] ELSE committed[k]]

\* a cascade that reads the lessons without the transaction's own updates
CommittedLessonsOnly(s) == lessons

ViewLessons(s) == Overlay(lessons, inv[s].wL)
ViewPrograms(s) == Overlay(programs, inv[s].wP)

LockedLessons(s) == DOMAIN inv[s].wL
LockedPrograms(s) == DOMAIN inv[s].wP
\* a store without row locks
NoRowLock(l, s) == FALSE
LessonLockedByOther(l, s) == \E o \in Slots \ {s} : l \in LockedLessons(o)
ProgramLockedByOther(p, s) == \E o \in Slots \ {s} : p \in LockedPrograms(o)
LessonLocked(l) == \E o \in Slots : l \in LockedLessons(o)
ProgramLocked(p) == \E o \in Slots : p \in LockedPrograms(o)

\* programs p JOIN terms t ON t.program_id = p.id WHERE t.id = term
ProgramOfTerm(t) == termProgram[t]

\* SELECT t.program_id FROM terms t JOIN lessons l ON l.term_id = t.id
\* WHERE l.status = 'published'
HasPublishedLesson(ls, p) ==
  \E l \in Lessons : ls[l].status = "published" /\ ProgramOfTerm(TermOfLesson(l)) = p

(***************************************************************************)
(* runWorker, server revisions.                                            *)
(***************************************************************************)

\* the cutoff as publish_at < now
IsDueStrict(row, now) ==
  row.status = "scheduled" /\ row.publish_at # NULL /\ row.publish_at < now

\* the cutoff with a null publish_at compared as the epoch
IsDueNullable(row, now) ==
  row.status = "scheduled" /\ row.publish_at <= now

\* the cutoff without the status filter
IsDueAnyStatus(row, now) ==
  row.status # "none" /\ row.publish_at # NULL /\ row.publish_at <= now

\* WHERE status = 'scheduled' AND publish_at IS NOT NULL AND publish_at <= now
IsDue(row, now) ==
  row.status = "scheduled" /\ row.publish_at # NULL /\ row.publish_at <= now

DueLessons(ls, now) == {l \in Lessons : IsDue(ls[l], now)}

\* SET status = 'published', published_at = now, updated_at = now
PublishLessonRow(row, now) ==
  [row EXCEPT !.status = "published", !.published_at = now, !.updated_at = Stamp(now)]

\* SET status = 'published', published_at = COALESCE(published_at, now), updated_at = now
PublishProgramRow(row, now) ==
  [row EXCEPT !.status = "published",
              !.published_at = Coalesce(row.published_at, now),
              !.updated_at = Stamp(now)]

\* the bulk cascade matching nothing once the subquery returns a null program_id
BulkCascadeNullTrap(ls, ps) ==
  IF \E l \in Lessons : ls[l].status = "published" /\ ProgramOfTerm(TermOfLesson(l)) = NULL
  THEN {}
  ELSE {p \in Programs : ps[p].status \in {"draft", "scheduled"} /\ HasPublishedLesson(ls, p)}

\* WHERE status IN ('draft', 'scheduled') AND id IN (programs with a published lesson)
BulkCascadeTargets(ls, ps) ==
  {p \in Programs : ps[p].status \in {"draft", "scheduled"} /\ HasPublishedLesson(ls, p)}

\* the per-lesson cascade without the status test
LessonCascadeAnyStatus(ps, l) ==
  {p \in Programs : p = ProgramOfTerm(TermOfLesson(l))}

\* WHERE id = $1 AND status != 'published'   /   if (prog.status !== 'published')
LessonCascadeTargets(ps, l) ==
  {p \in Programs : p = ProgramOfTerm(TermOfLesson(l)) /\ ps[p].status # "published"}

\* NOW() and CURRENT_TIMESTAMP are the transaction's start time;
\* clock_timestamp() is read when the statement runs
StatementNow(s) == IF impl = "srvClock" THEN clock ELSE inv[s].now

Set(s, r) == inv' = [inv EXCEPT ![s] = r]

LowestIdle(s) == inv[s].pc = "idle" /\ \A o \in Slots : o < s => inv[o].pc # "idle"

\* a timer tick calls runWorker while the guard is set: return
InvokeSkip(s) ==
  /\ impl \in ServerImpls
  /\ LowestIdle(s)
  /\ GuardBlocks(impl, workerRunning)
  /\ Set(s, [IdleSlot EXCEPT !.outcome = "skipped"])
  /\ UNCHANGED <<fixed, republished, clock, lessons, programs, workerRunning,
                 pending, cleanNow>>

\* a timer tick calls runWorker: workerRunning = true; pool.connect() is awaited
Invoke(s) ==
  /\ impl \in ServerImpls
  /\ LowestIdle(s)
  /\ ~GuardBlocks(impl, workerRunning)
  /\ ticksOverlap \/ \A o \in Slots : inv[o].pc = "idle"
  /\ workerRunning' = IF Guarded(impl) THEN TRUE ELSE workerRunning
  /\ Set(s, [IdleSlot EXCEPT !.pc = "begin"])
  /\ UNCHANGED <<fixed, republished, clock, lessons, programs, pending, cleanNow>>

StoreUnchanged == UNCHANGED <<fixed, republished, clock, lessons, programs,
                              workerRunning, pending, cleanNow>>

\* client = await pool.connect(); [srvClock: SELECT count(*) ...;]
\* await client.query('BEGIN'); [srvBulk: SELECT id, title, publish_at ...]
\* None of these reads or writes a row, so they are one step; now is the
\* transaction's start time.
Begin(s) ==
  /\ inv[s].pc = "begin"
  /\ Set(s, [inv[s] EXCEPT !.pc = "update", !.now = clock])
  /\ StoreUnchanged

\* pool.connect() rejects: catch without a client, then finally
ConnectFail(s) ==
  /\ inv[s].pc = "begin"
  /\ Set(s, [IdleSlot EXCEPT !.pc = "finally", !.outcome = "noClient"])
  /\ StoreUnchanged

\* a cascade that runs whatever the lesson UPDATE returned
AlwaysCascade(due) == "cascade"

\* if (dueLessons.length > 0) { cascade }
AfterLessonUpdate(due) == IF due = {} THEN "commit" ELSE "cascade"

\* UPDATE lessons SET ... WHERE status = 'scheduled' AND publish_at <= now RETURNING id, term_id
UpdateLessons(s) ==
  /\ inv[s].pc = "update"
  /\ LET now == StatementNow(s)
         due == DueLessons(ViewLessons(s), now)
     IN /\ \A l \in due : ~LessonLockedByOther(l, s)
        /\ Set(s, [inv[s] EXCEPT
                     !.pc = AfterLessonUpdate(due),
                     !.now = now, !.todo = due,
                     !.wL = [l \in due |-> PublishLessonRow(lessons[l], now)]])
  /\ cleanNow' = Reading
  /\ UNCHANGED <<fixed, republished, clock, lessons, programs, workerRunning, pending>>

\* UPDATE programs SET ... WHERE status IN ('draft','scheduled') AND id IN (...)
CascadeBulk(s) ==
  /\ impl = "srvBulk"
  /\ inv[s].pc = "cascade"
  /\ LET ps == ViewPrograms(s)
         targets == BulkCascadeTargets(ViewLessons(s), ps)
     IN /\ \A p \in targets : ~ProgramLockedByOther(p, s)
        /\ Set(s, [inv[s] EXCEPT
                     !.pc = "commit", !.todo = {},
                     !.wP = [p \in targets |-> PublishProgramRow(ps[p], StatementNow(s))]])
  /\ StoreUnchanged

\* for (const lesson of dueLessons): SELECT the program of lesson.term_id, then
\* UPDATE programs SET ... WHERE id = $1 AND status != 'published'
CascadeLesson(s, l) ==
  /\ impl \in {"srvPlain", "srvClock"}
  /\ inv[s].pc = "cascade"
  /\ l \in inv[s].todo
  /\ LET ps == ViewPrograms(s)
         targets == LessonCascadeTargets(ps, l)
         rest == inv[s].todo \ {l}
     IN /\ \A p \in targets : ~ProgramLockedByOther(p, s)
        /\ Set(s, [inv[s] EXCEPT
                     !.pc = IF rest = {} THEN "commit" ELSE "cascade",
                     !.todo = rest,
                     !.wP = [p \in DOMAIN inv[s].wP \cup targets |->
                               IF p \in targets
                               THEN PublishProgramRow(ps[p], StatementNow(s))
                               ELSE inv[s].wP[p]]])
  /\ StoreUnchanged

\* a rollback that leaves the transaction's writes in the tables
RollbackKeepsWrites(committed, w) == Overlay(committed, w)

\* the committed tables after COMMIT / after ROLLBACK of writes w
CommitResult(committed, w) == Overlay(committed, w)
RollbackResult(committed, w) == committed

\* await client.query('COMMIT')
Commit(s) ==
  /\ inv[s].pc = "commit"
  /\ lessons' = CommitResult(lessons, inv[s].wL)
  /\ programs' = CommitResult(programs, inv[s].wP)
  /\ Set(s, [IdleSlot EXCEPT !.pc = "finally", !.outcome = "committed",
                             !.batch = DOMAIN inv[s].wL])
  /\ cleanNow' = IF cleanNow = Reading THEN inv[s].now ELSE NULL
  /\ republished' = (republished \/ Republishes(programs, programs'))
  /\ UNCHANGED <<fixed, clock, workerRunning, pending>>

\* a query between connect and COMMIT rejects: control moves to the catch block
QueryFail(s) ==
  /\ inv[s].pc \in {"begin", "update", "cascade", "commit"}
  /\ Set(s, [inv[s] EXCEPT !.pc = "rollback"])
  /\ StoreUnchanged

\* catch: await client.query('ROLLBACK')
Rollback(s) ==
  /\ inv[s].pc = "rollback"
  /\ lessons' = RollbackResult(lessons, inv[s].wL)
  /\ programs' = RollbackResult(programs, inv[s].wP)
  /\ Set(s, [IdleSlot EXCEPT !.pc = "finally", !.outcome = "rolledback",
                             !.batch = DOMAIN inv[s].wL])
  /\ UNCHANGED <<fixed, republished, clock, workerRunning, pending, cleanNow>>

\* srvBulk, srvClock: try { ROLLBACK } catch (rbErr) { log }
\* srvPlain: the rejection leaves the catch block
RollbackRejects(i) == i = "srvPlain"

\* ROLLBACK itself rejects (connection lost): the server aborts the transaction
RollbackFail(s) ==
  /\ inv[s].pc = "rollback"
  /\ lessons' = RollbackResult(lessons, inv[s].wL)
  /\ programs' = RollbackResult(programs, inv[s].wP)
  /\ Set(s, [IdleSlot EXCEPT !.pc = "finally", !.outcome = "rollbackFailed",
                             !.rejected = RollbackRejects(impl),
                             !.batch = DOMAIN inv[s].wL])
  /\ UNCHANGED <<fixed, republished, clock, workerRunning, pending, cleanNow>>

\* a finally block that does not reset the guard
GuardStaysSet(i, g) == g

\* the guard after the finally block
GuardAfterFinally(i, g) == IF Guarded(i) THEN FALSE ELSE g

\* finally: if (client) client.release(); workerRunning = false
Finally(s) ==
  /\ inv[s].pc = "finally"
  /\ workerRunning' = GuardAfterFinally(impl, workerRunning)
  /\ inv' = [o \in Slots |->
               IF o = s THEN [IdleSlot EXCEPT !.outcome = inv[s].outcome,
                                              !.rejected = inv[s].rejected]
               ELSE IF inv[o].pc = "idle" THEN IdleSlot ELSE inv[o]]
  /\ UNCHANGED <<fixed, republished, clock, lessons, programs, pending, cleanNow>>

Tick ==
  /\ clock < MaxTime
  /\ clock' = clock + 1
  /\ UNCHANGED <<fixed, republished, lessons, programs, workerRunning, inv,
                 pending, cleanNow>>

(***************************************************************************)
(* Lesson handlers of the server revisions.  Each statement is its own     *)
(* autocommit transaction; NOW() is the statement's time.                  *)
(***************************************************************************)

\* the handlers of srvBulk maintain published_at and cascade to the program
HandlerCascades(i) == i = "srvBulk"

\* a lesson edit ends the quiet period after a cycle
LessonEdited ==
  /\ cleanNow' = NULL
  /\ UNCHANGED inv

\* the row INSERT INTO lessons stores
PostedLessonRow(i, st, pa, now) ==
  [status |-> st, publish_at |-> pa,
   published_at |-> IF HandlerCascades(i) /\ st = "published" THEN now ELSE NULL,
   updated_at |-> Stamp(now)]

\* the row UPDATE lessons SET title, status, publish_at, ... WHERE id = $n leaves
PutLessonRow(i, row, st, pa, now) ==
  [status |-> st, publish_at |-> pa,
   published_at |-> IF HandlerCascades(i) /\ st = "published"
                    THEN Coalesce(row.published_at, now) ELSE row.published_at,
   updated_at |-> Stamp(now)]

\* app.post('/api/lessons')
PostLesson(l, st, pa) ==
  /\ impl \in ServerImpls
  /\ ~Present(l) /\ \A k \in Lessons : k < l => Present(k)
  /\ lessons' = [lessons EXCEPT ![l] = PostedLessonRow(impl, st, pa, clock)]
  /\ pending' = IF HandlerCascades(impl) /\ st = "published"
                THEN pending \cup {l} ELSE pending
  /\ LessonEdited
  /\ UNCHANGED <<fixed, republished, clock, programs, workerRunning>>

\* app.put('/api/lessons/:id'); waits for a transaction holding the row
PutLesson(l, st, pa) ==
  /\ impl \in ServerImpls
  /\ Present(l) /\ ~LessonLocked(l)
  /\ lessons' = [lessons EXCEPT ![l] = PutLessonRow(impl, lessons[l], st, pa, clock)]
  /\ pending' = IF HandlerCascades(impl) /\ st = "published"
                THEN pending \cup {l} ELSE pending
  /\ LessonEdited
  /\ UNCHANGED <<fixed, republished, clock, programs, workerRunning>>

\* UPDATE programs SET ... WHERE id IN (SELECT program_id FROM terms WHERE id =
\*   (SELECT term_id FROM lessons WHERE id = $1)) AND status != 'published'
HandlerCascadeTargets(ps, l) ==
  {p \in Programs : p = ProgramOfTerm(TermOfLesson(l)) /\ ps[p].status # "published"}

\* the second statement of the lesson handlers
HandlerCascade(l) ==
  /\ l \in pending
  /\ LET targets == HandlerCascadeTargets(programs, l)
     IN /\ \A p \in targets : ~ProgramLocked(p)
        /\ programs' = [p \in Programs |->
                          IF p \in targets THEN PublishProgramRow(programs[p], clock)
                          ELSE programs[p]]
  /\ pending' = pending \ {l}
  /\ republished' = (republished \/ Republishes(programs, programs'))
  /\ UNCHANGED <<fixed, clock, lessons, workerRunning, inv, cleanNow>>

\* the second statement rejects: the handler ends without the cascade
HandlerCascadeFail(l) ==
  /\ l \in pending
  /\ pending' = pending \ {l}
  /\ UNCHANGED <<fixed, republished, clock, lessons, programs, workerRunning, inv,
                 cleanNow>>

(***************************************************************************)
(* The localStorage Database (local: unnamed/part_002, localOld: store.ts) *)
(***************************************************************************)

\* autoPublishProgram with published_at: now
AutoPublishProgramOverwrite(ls, ps, t, now) ==
  LET p == ProgramOfTerm(t)
  IN IF p = NULL THEN ps
     ELSE IF HasPublishedLesson(ls, p) /\ ps[p].status # "published"
          THEN [ps EXCEPT ![p] = [status |-> "published", published_at |-> now,
                                  updated_at |-> Stamp(now)]]
          ELSE ps

\* autoPublishProgram(termId)
AutoPublishProgram(ls, ps, t, now) ==
  LET p == ProgramOfTerm(t)
  IN IF p = NULL THEN ps
     ELSE IF HasPublishedLesson(ls, p) /\ ps[p].status # "published"
          THEN [ps EXCEPT ![p] = [status |-> "published",
                                  published_at |-> Coalesce(ps[p].published_at, now),
                                  updated_at |-> Stamp(now)]]
          ELSE ps

\* createLesson(lesson): the row is the caller's object plus id and timestamps
CreateLesson(l, st, pa) ==
  /\ impl \in LocalImpls
  /\ ~Present(l) /\ \A k \in Lessons : k < l => Present(k)
  /\ lessons' = [lessons EXCEPT ![l] = [status |-> st, publish_at |-> pa,
                                        published_at |-> NULL, updated_at |-> Stamp(clock)]]
  /\ LessonEdited
  /\ UNCHANGED <<fixed, republished, clock, programs, workerRunning, pending>>

\* updateLesson throws for a scheduled lesson without publish_at (local only)
UpdateLessonThrows(i, st, pa) == i = "local" /\ st = "scheduled" /\ pa = NULL

\* the row updateLesson(lesson) stores for the caller's object
UpdatedLessonRow(i, st, pa, pb, now) ==
  [status |-> st, publish_at |-> pa,
   published_at |-> IF i = "local" /\ st = "published" THEN Coalesce(pb, now) ELSE pb,
   updated_at |-> Stamp(now)]

\* updateLesson(lesson): the editor saves its copy of the lesson, then
\* autoPublishProgram(lesson.term_id)
UpdateLesson(l, st, pa, pb) ==
  /\ impl \in LocalImpls
  /\ Present(l)
  /\ ~UpdateLessonThrows(impl, st, pa)
  /\ LET ls == [lessons EXCEPT ![l] = UpdatedLessonRow(impl, st, pa, pb, clock)]
     IN /\ lessons' = ls
        /\ programs' = AutoPublishProgram(ls, programs, TermOfLesson(l), clock)
  /\ republished' = (republished \/ Republishes(programs, programs'))
  /\ LessonEdited
  /\ UNCHANGED <<fixed, clock, workerRunning, pending>>

\* updateProgram(program): the editor saves its copy of the program
UpdateProgram(p, st, pb) ==
  /\ impl \in LocalImpls
  /\ programs' = [programs EXCEPT ![p] = [status |-> st, published_at |-> pb,
                                          updated_at |-> Stamp(clock)]]
  /\ UNCHANGED <<fixed, republished, clock, lessons, workerRunning, inv, pending,
                 cleanNow>>

\* published_at of a lesson processScheduled publishes
LocalPublishedAt(i, row, now) ==
  IF i = "local" THEN Coalesce(row.published_at, now) ELSE now

\* this.lessons.map(l => due ? {...l, status: PUBLISHED, published_at} : l)
LocalPublishLessons(i, ls, now) ==
  [l \in Lessons |->
     IF ls[l].status = "scheduled" /\ ls[l].publish_at # NULL /\ ls[l].publish_at <= now
     THEN [ls[l] EXCEPT !.status = "published",
                        !.published_at = LocalPublishedAt(i, ls[l], now)]
     ELSE ls[l]]

\* this.programs.map(p => hasPublished && p.status !== PUBLISHED ? {...} : p)
LocalCascade(ls, ps, now) ==
  [p \in Programs |->
     IF HasPublishedLesson(ls, p) /\ ps[p].status # "published"
     THEN [ps[p] EXCEPT !.status = "published",
                        !.published_at = Coalesce(ps[p].published_at, now)]
     ELSE ps[p]]

\* processScheduled(): the whole cycle is one synchronous call
ProcessScheduled ==
  /\ impl \in LocalImpls
  /\ LET ls == LocalPublishLessons(impl, lessons, clock)
         updatedCount == Cardinality({l \in Lessons : ls[l] # lessons[l]})
     IN /\ lessons' = ls
        /\ programs' = IF updatedCount > 0 THEN LocalCascade(ls, programs, clock)
                       ELSE programs
  /\ cleanNow' = clock
  /\ republished' = (republished \/ Republishes(programs, programs'))
  /\ UNCHANGED <<fixed, clock, workerRunning, inv, pending>>

(***************************************************************************)
(* Specification                                                           *)
(***************************************************************************)
NewProgram(st) == [status |-> st, published_at |-> NULL, updated_at |-> Stamp(1)]

Init ==
  /\ impl \in ServerImpls \cup LocalImpls
  /\ clock = 1
  /\ lessons = [l \in Lessons |-> NoLesson]
  \* server: POST /api/programs stores the status of the request body;
  \* local: createProgram stores draft
  /\ programs \in [Programs -> {NewProgram(st) : st \in
                      IF impl \in ServerImpls THEN Statuses ELSE {"draft"}}]
  /\ termProgram \in {f \in [Terms -> Programs \cup {NULL}] : f[1] = 1}
  /\ workerRunning = FALSE
  /\ inv = [s \in Slots |-> IdleSlot]
  /\ pending = {}
  /\ ticksOverlap = Guarded(impl)
  /\ catalog = NoCatalog
  /\ tables = NoTables
  /\ db = NoDb
  /\ cleanNow = NULL
  /\ republished = FALSE

WorkerStep(s) ==
  \/ InvokeSkip(s)
  \/ Invoke(s)
  \/ Begin(s)
  \/ ConnectFail(s)
  \/ UpdateLessons(s)
  \/ CascadeBulk(s)
  \/ \E l \in Lessons : CascadeLesson(s, l)
  \/ Commit(s)
  \/ QueryFail(s)
  \/ Rollback(s)
  \/ RollbackFail(s)
  \/ Finally(s)

Next ==
  \/ Tick
  \/ \E s \in Slots : WorkerStep(s)
  \/ \E l \in Lessons : \E e \in PostInputs(l) : PostLesson(l, e[1], e[2])
  \/ \E l \in Lessons : \E e \in PutInputs(l) : PutLesson(l, e[1], e[2])
  \/ \E l \in Lessons : HandlerCascade(l)
  \/ \E l \in Lessons : HandlerCascadeFail(l)
  \/ \E l \in Lessons : \E e \in PostInputs(l) : CreateLesson(l, e[1], e[2])
  \/ \E l \in Lessons : \E e \in PutInputs(l) :
       \E pb \in {lessons[l].published_at, NULL} : UpdateLesson(l, e[1], e[2], pb)
  \/ \E p \in Programs, st \in Statuses :
       \E pb \in {programs[p].published_at, NULL} : UpdateProgram(p, st, pb)
  \/ ProcessScheduled

Spec == Init /\ [][Next]_vars

(***************************************************************************)
(* Properties                                                              *)
(***************************************************************************)

\* the row is scheduled for the instant T
ScheduledFor(row, T) == row.status = "scheduled" /\ row.publish_at = T

\* C1: a runWorker step that fails or rolls back (any step from the lesson
\* UPDATE on that is not COMMIT) leaves the committed tables as they are: no
\* lesson and no program is changed, and every lesson of the cycle's batch is
\* still scheduled with the published_at it had.
C1_RollbackLeavesStore ==
  [][\A s \in Slots :
       (\/ UpdateLessons(s) \/ CascadeBulk(s) \/ (\E l \in Lessons : CascadeLesson(s, l))
        \/ QueryFail(s) \/ Rollback(s) \/ RollbackFail(s)) =>
         /\ lessons' = lessons
         /\ programs' = programs
         /\ \A l \in DOMAIN inv'[s].wL \cup inv'[s].batch :
              /\ lessons'[l].status = "scheduled"
              /\ lessons'[l].published_at = lessons[l].published_at]_vars

\* a cycle that had updated lessons has been rolled back and they are scheduled
C1_Witness ==
  \E s \in Slots :
    /\ inv[s].pc = "finally"
    /\ inv[s].outcome \in {"rolledback", "rollbackFailed"}
    /\ inv[s].batch # {}
    /\ \A l \in inv[s].batch : lessons[l].status = "scheduled"

\* C2: in the revisions with the guard at most one invocation is past the
\* guard at any time; an invocation made while another one runs is a skip,
\* and a skip opens no transaction, writes nothing and leaves the guard and
\* the running invocation alone.
C2_GuardExcludes ==
  /\ [](Guarded(impl) => Cardinality({s \in Slots : inv[s].pc # "idle"}) <= 1)
  /\ [][\A s \in Slots :
          /\ (/\ Guarded(impl)
              /\ \E o \in Slots : inv[o].pc # "idle"
              /\ Invoke(s) \/ InvokeSkip(s)) => InvokeSkip(s)
          /\ InvokeSkip(s) =>
               /\ inv'[s].pc = "idle" /\ inv'[s].wL = NoWrites /\ inv'[s].wP = NoWrites
               /\ \A o \in Slots \ {s} : inv'[o] = inv[o]
               /\ lessons' = lessons /\ programs' = programs
               /\ workerRunning' = workerRunning]_vars

\* one invocation is inside its transaction, the other one has been skipped
C2_Witness ==
  /\ Guarded(impl)
  /\ \E s, o \in Slots :
       /\ inv[s].pc \in {"update", "cascade", "commit"}
       /\ inv[o].pc = "idle" /\ inv[o].outcome = "skipped"

\* C3: in the revisions with the guard, workerRunning is set exactly while an
\* invocation is between the guard and the end of its finally block; the
\* finally block leaves it false however the cycle ended.
C3_GuardReleased ==
  /\ [](Guarded(impl) => (workerRunning <=> \E s \in Slots : inv[s].pc # "idle"))
  /\ [][\A s \in Slots : Finally(s) => ~workerRunning' /\ inv'[s].pc = "idle"]_vars

\* a cycle whose ROLLBACK failed has ended and the guard is free
C3_Witness ==
  /\ Guarded(impl)
  /\ ~workerRunning
  /\ \A s \in Slots : inv[s].pc = "idle"
  /\ \E s \in Slots : inv[s].outcome = "rollbackFailed"

\* C4: a lesson scheduled for T is in the batch of a cycle that reads the
\* lessons with now >= T, the batch stays in the transaction until COMMIT, and
\* COMMIT leaves every lesson of the batch published; processScheduled
\* publishes every lesson scheduled for T <= now.
C4_DuePublished ==
  [][/\ \A s \in Slots :
          /\ UpdateLessons(s) =>
               \A l \in Lessons, T \in Times :
                 (ScheduledFor(lessons[l], T) /\ inv'[s].now >= T) =>
                   l \in DOMAIN inv'[s].wL /\ inv'[s].wL[l].status = "published"
          /\ (CascadeBulk(s) \/ \E l \in Lessons : CascadeLesson(s, l)) =>
               inv'[s].wL = inv[s].wL
          /\ Commit(s) => \A l \in DOMAIN inv[s].wL : lessons'[l].status = "published"
     /\ ProcessScheduled =>
          \A l \in Lessons, T \in Times :
            (ScheduledFor(lessons[l], T) /\ clock >= T) => lessons'[l].status = "published"]_vars

\* a cycle running at now = T has committed and the lesson scheduled for T is published
C4_Witness ==
  /\ cleanNow \in Times
  /\ \E l \in Lessons :
       /\ lessons[l].status = "published"
       /\ lessons[l].publish_at = cleanNow
       /\ lessons[l].published_at = cleanNow

\* C5: a committing cycle leaves every lesson that is scheduled for a T > now,
\* or scheduled without publish_at, as it is, and a cycle with an empty batch
\* leaves every program as it is.
C5_NotDueUntouched ==
  [][/\ \A s \in Slots :
          Commit(s) =>
            /\ \A l \in Lessons :
                 (\/ ScheduledFor(lessons[l], NULL)
                  \/ \E T \in Times : ScheduledFor(lessons[l], T) /\ inv[s].now < T) =>
                   lessons'[l] = lessons[l]
            /\ (DOMAIN inv[s].wL = {}) => programs' = programs
     /\ ProcessScheduled =>
          /\ \A l \in Lessons :
               (\/ ScheduledFor(lessons[l], NULL)
                \/ \E T \in Times : ScheduledFor(lessons[l], T) /\ clock < T) =>
                 lessons'[l] = lessons[l]
          /\ (\A l \in Lessons, T \in Times : ~(ScheduledFor(lessons[l], T) /\ clock >= T)) =>
               programs' = programs]_vars

\* a cycle has committed; a lesson scheduled for a later instant and a lesson
\* scheduled without publish_at are still scheduled
C5_Witness ==
  /\ cleanNow \in Times
  /\ \E l \in Lessons, T \in Times : ScheduledFor(lessons[l], T) /\ cleanNow < T
  /\ \E l \in Lessons : ScheduledFor(lessons[l], NULL)

\* no lesson is scheduled for an instant after c and up to now
NothingNewlyDue(c, now) ==
  \A l \in Lessons, T \in Times : ScheduledFor(lessons[l], T) => ~(c < T /\ T <= now)

\* C6 (as amended): after a cycle has committed at c and no lesson has been
\* created or saved since it read the lessons, a cycle running at now >= c,
\* with no lesson scheduled for an instant in (c, now], writes nothing: its
\* batch is empty, it runs no cascade, and its COMMIT changes no row.
C6_RepeatWritesNothing ==
  [][/\ \A s \in Slots :
          /\ (UpdateLessons(s) /\ cleanNow \in Times
                /\ NothingNewlyDue(cleanNow, inv'[s].now)) =>
               /\ inv'[s].wL = NoWrites /\ inv'[s].wP = NoWrites
               /\ inv'[s].pc = "commit"
          /\ (Commit(s) /\ inv[s].wL = NoWrites /\ inv[s].wP = NoWrites) =>
               lessons' = lessons /\ programs' = programs
     /\ (ProcessScheduled /\ cleanNow \in Times /\ NothingNewlyDue(cleanNow, clock)) =>
          lessons' = lessons /\ programs' = programs]_vars

\* C6 as stated: a cycle after a committed cycle, at the same or at any later
\* now, with no lesson created or saved in between, writes nothing.
C6_AnyLaterNow ==
  [][/\ \A s \in Slots :
          (UpdateLessons(s) /\ cleanNow \in Times) => inv'[s].wL = NoWrites
     /\ (ProcessScheduled /\ cleanNow \in Times) =>
          lessons' = lessons /\ programs' = programs]_vars

\* a lesson published by a cycle at its publish_at is unchanged after a later cycle
C6_Witness ==
  /\ cleanNow \in Times
  /\ \E l \in Lessons :
       /\ lessons[l].status = "published"
       /\ lessons[l].publish_at # NULL
       /\ lessons[l].publish_at <= lessons[l].published_at
       /\ lessons[l].updated_at <= lessons[l].published_at
       /\ lessons[l].published_at < cleanNow

\* a publish cycle makes its writes visible
CycleWrites == (\E s \in Slots : Commit(s)) \/ ProcessScheduled

\* C7: when a publish cycle moves a lesson from scheduled to published and the
\* lesson has a published_at, the published_at stays as it is.
C7_LessonPublishedAtKept ==
  [][CycleWrites =>
       \A l \in Lessons :
         (/\ lessons[l].status = "scheduled"
          /\ lessons'[l].status = "published"
          /\ lessons[l].published_at # NULL) =>
           lessons'[l].published_at = lessons[l].published_at]_vars

\* a publish cycle or the cascade of a lesson create/update writes the programs
CascadeWrites ==
  \/ CycleWrites
  \/ \E l \in Lessons : HandlerCascade(l)
  \/ \E l \in Lessons : \E e \in PutInputs(l) :
       \E pb \in {lessons[l].published_at, NULL} : UpdateLesson(l, e[1], e[2], pb)

\* C8: a publish cycle or a cascade of a lesson create/update leaves the
\* published_at of every program that has one as it is.
C8_ProgramPublishedAtKept ==
  [][CascadeWrites =>
       \A p \in Programs :
         programs[p].published_at # NULL =>
           programs'[p].published_at = programs[p].published_at]_vars

\* a program moved away from published has been cascaded to published again
\* and has the published_at of its first publication
C8_Witness ==
  /\ republished
  /\ \E p \in Programs :
       /\ programs[p].status = "published"
       /\ programs[p].published_at # NULL
       /\ programs[p].published_at < clock

\* C9: every program a publish cycle moves to published has, in the tables
\* the cycle's commit produces, a published lesson in one of its terms.
C9_CascadePrecondition ==
  [][/\ \A s \in Slots :
          Commit(s) => \A p \in DOMAIN inv[s].wP : HasPublishedLesson(lessons', p)
     /\ ProcessScheduled =>
          \A p \in Programs :
            (programs[p].status # "published" /\ programs'[p].status = "published") =>
              HasPublishedLesson(lessons', p)]_vars

\* C10: a publish cycle changes no field of an archived lesson and no field
\* of an archived program.
C10_ArchivedUntouched ==
  [][CycleWrites =>
       /\ \A l \in Lessons : lessons[l].status = "archived" => lessons'[l] = lessons[l]
       /\ \A p \in Programs : programs[p].status = "archived" => programs'[p] = programs[p]]_vars

\* the program that owns lesson l is draft or scheduled in ps
OwnerUnpublished(ps, l) ==
  /\ ProgramOfTerm(TermOfLesson(l)) # NULL
  /\ ps[ProgramOfTerm(TermOfLesson(l))].status \in {"draft", "scheduled"}

\* C11: the lesson UPDATE and the cascade statements of a cycle change nothing
\* a reader of the committed tables sees; a cascade statement runs with every
\* lesson of the batch already published in the transaction; and the COMMIT
\* that makes the batch published leaves no owning program of a batch lesson
\* draft or scheduled.
C11_CommitVisibility ==
  [][/\ \A s \in Slots :
          /\ (UpdateLessons(s) \/ CascadeBulk(s) \/ \E l \in Lessons : CascadeLesson(s, l)) =>
               lessons' = lessons /\ programs' = programs
          /\ (CascadeBulk(s) \/ \E l \in Lessons : CascadeLesson(s, l)) =>
               /\ DOMAIN inv[s].wL # {}
               /\ \A l \in DOMAIN inv[s].wL : ViewLessons(s)[l].status = "published"
          /\ Commit(s) =>
               \A l \in DOMAIN inv[s].wL :
                 lessons'[l].status = "published" /\ ~OwnerUnpublished(programs', l)
     /\ ProcessScheduled =>
          \A l \in Lessons :
            (lessons[l].status = "scheduled" /\ lessons'[l].status = "published") =>
              ~OwnerUnpublished(programs', l)]_vars

\* a guarded cycle has committed a batch lesson together with its program's cascade
C11_Witness ==
  /\ Guarded(impl)
  /\ \E s \in Slots, l \in Lessons :
       /\ inv[s].pc = "finally" /\ inv[s].outcome = "committed"
       /\ l \in inv[s].batch
       /\ lessons[l].status = "published"
       /\ ProgramOfTerm(TermOfLesson(l)) # NULL
       /\ programs[ProgramOfTerm(TermOfLesson(l))].status = "published"
       /\ programs[ProgramOfTerm(TermOfLesson(l))].published_at = lessons[l].published_at

\* C12: the promise of no invocation of runWorker rejects, whichever
\* statement of the cycle failed, the ROLLBACK of the catch block included.
C12_NeverRejects == \A s \in Slots : ~inv[s].rejected

(***************************************************************************)
(* Retry after a failed cycle: the server revisions with lessons that are  *)
(* created scheduled and not saved again.                                  *)
(***************************************************************************)
InitRetry == Init /\ impl \in ServerImpls

\* the store's outage ends: statements fail only before the last instant
TransientQueryFail(s) == clock < MaxTime /\ QueryFail(s)
TransientConnectFail(s) == clock < MaxTime /\ ConnectFail(s)

RetryWorkerStep(s) ==
  \/ InvokeSkip(s)
  \/ Invoke(s)
  \/ Begin(s)
  \/ TransientConnectFail(s)
  \/ UpdateLessons(s)
  \/ CascadeBulk(s)
  \/ \E l \in Lessons : CascadeLesson(s, l)
  \/ Commit(s)
  \/ TransientQueryFail(s)
  \/ Rollback(s)
  \/ RollbackFail(s)
  \/ Finally(s)

NextRetry ==
  \/ Tick
  \/ \E s \in Slots : RetryWorkerStep(s)
  \/ \E l \in Lessons : \E t \in Times : PostLesson(l, "scheduled", t)

\* time passes; setInterval keeps calling runWorker and every awaited
\* statement settles
FairRetry ==
  /\ WF_vars(Tick)
  /\ WF_vars(\E s \in Slots : RetryWorkerStep(s))

SpecRetry == InitRetry /\ [][NextRetry]_vars /\ FairRetry

\* C13: a failing cycle goes to its catch and finally blocks and back to
\* idle without another attempt, and its rollback leaves the lessons as they
\* are; with ticks that keep firing and statements that eventually succeed,
\* every lesson that is scheduled for T <= now is eventually published.
C13_RetryPublishes ==
  /\ [][\A s \in Slots :
          /\ QueryFail(s) => inv'[s].pc = "rollback" /\ lessons' = lessons
          /\ (Rollback(s) \/ RollbackFail(s)) => inv'[s].pc = "finally" /\ lessons' = lessons
          /\ (ConnectFail(s) \/ Finally(s)) => inv'[s].pc \in {"finally", "idle"} /\ lessons' = lessons
          /\ (inv[s].pc # "begin" /\ inv'[s].pc = "begin") => Invoke(s)]_vars
  /\ \A l \in Lessons :
       (\E T \in Times : ScheduledFor(lessons[l], T) /\ T <= clock)
         ~> (lessons[l].status = "published")

\* a cycle has failed and ended, a due lesson is still scheduled and no
\* cycle is running
C13_Witness ==
  /\ \A s \in Slots : inv[s].pc = "idle"
  /\ \E s \in Slots : inv[s].outcome \in {"rolledback", "rollbackFailed", "noClient"}
  /\ \E l \in Lessons, T \in Times : ScheduledFor(lessons[l], T) /\ T <= clock
  /\ ~GuardBlocks(impl, workerRunning)

\* C14: every published_at a committing cycle writes, for the lessons of its
\* batch and for the programs it cascades that had none, is the instant the
\* cycle used as the cutoff of its lesson UPDATE.
C14_SingleNow ==
  [][\A s \in Slots :
       Commit(s) =>
         /\ \A l \in DOMAIN inv[s].wL : lessons'[l].published_at = inv[s].now
         /\ \A p \in DOMAIN inv[s].wP :
              programs[p].published_at = NULL => programs'[p].published_at = inv[s].now]_vars

\* no lesson is scheduled for an instant up to now
NothingDue(now) ==
  \A l \in Lessons, T \in Times : ~(ScheduledFor(lessons[l], T) /\ T <= now)

\* C15: when the lesson UPDATE of a cycle finds no lesson scheduled for an
\* instant up to now, the cycle goes to COMMIT without a cascade statement
\* and with no write, and its COMMIT leaves all lessons and programs as they
\* are; processScheduled with no lesson due changes nothing.
C15_EmptyBatchNoOp ==
  [][/\ \A s \in Slots :
          /\ (UpdateLessons(s) /\ NothingDue(inv'[s].now)) =>
               /\ inv'[s].pc = "commit"
               /\ inv'[s].wL = NoWrites /\ inv'[s].wP = NoWrites
               /\ lessons' = lessons /\ programs' = programs
          /\ (Commit(s) /\ DOMAIN inv[s].wL = {}) =>
               lessons' = lessons /\ programs' = programs
     /\ (ProcessScheduled /\ NothingDue(clock)) =>
          lessons' = lessons /\ programs' = programs]_vars

\* a cycle with an empty batch has committed and a draft program that owns a
\* published lesson is still draft
C15_Witness ==
  /\ impl = "srvBulk"
  /\ cleanNow \in Times
  /\ \A l \in Lessons : lessons[l].publish_at = NULL
  /\ \E p \in Programs : programs[p].status = "draft" /\ HasPublishedLesson(lessons, p)

\* C16: a cascade statement leaves every program that is published in the
\* transaction's view out of its writes, the same cascade applied again to
\* its own result selects no program, and COMMIT leaves every program that
\* was published as it is; the same for the cascade of processScheduled.
C16_CascadeIdempotent ==
  [][/\ \A s \in Slots :
          /\ (CascadeBulk(s) \/ \E l \in Lessons : CascadeLesson(s, l)) =>
               \A p \in Programs :
                 ViewPrograms(s)[p].status = "published" =>
                   /\ (p \in DOMAIN inv'[s].wP) = (p \in DOMAIN inv[s].wP)
                   /\ p \in DOMAIN inv[s].wP => inv'[s].wP[p] = inv[s].wP[p]
          /\ CascadeBulk(s) =>
               BulkCascadeTargets(ViewLessons(s), Overlay(programs, inv'[s].wP)) = {}
          /\ \A l \in Lessons :
               CascadeLesson(s, l) =>
                 LessonCascadeTargets(Overlay(programs, inv'[s].wP), l) = {}
          /\ Commit(s) =>
               \A p \in Programs :
                 programs[p].status = "published" => programs'[p] = programs[p]
     /\ ProcessScheduled =>
          /\ lessons' # lessons => LocalCascade(lessons', programs', clock) = programs'
          /\ \A p \in Programs :
               programs[p].status = "published" => programs'[p] = programs[p]]_vars

\* a cycle has committed two lessons of the same program, which is published
C16_Witness ==
  \E s \in Slots, p \in Programs :
    /\ inv[s].pc = "finally" /\ inv[s].outcome = "committed"
    /\ Cardinality(inv[s].batch) >= 2
    /\ \A l \in inv[s].batch : ProgramOfTerm(TermOfLesson(l)) = p
    /\ programs[p].status = "published"

\* the program of lesson l's term cannot be resolved
Unresolved(l) == ProgramOfTerm(TermOfLesson(l)) = NULL

\* C17: the cascade for a batch lesson whose program cannot be resolved
\* writes no program and goes on with the cycle, and the COMMIT of a cycle
\* with such a lesson publishes every lesson of the batch and leaves no
\* owning program of another batch lesson draft or scheduled.
C17_UnresolvedSkipped ==
  [][\A s \in Slots :
       /\ \A l \in Lessons :
            (CascadeLesson(s, l) /\ Unresolved(l)) =>
              /\ inv'[s].wP = inv[s].wP
              /\ inv'[s].todo = inv[s].todo \ {l}
              /\ inv'[s].pc \in {"cascade", "commit"}
       /\ (CascadeBulk(s) /\ \E l \in DOMAIN inv[s].wL : Unresolved(l)) =>
            /\ inv'[s].pc = "commit"
            /\ \A k \in DOMAIN inv[s].wL : ~OwnerUnpublished(Overlay(programs, inv'[s].wP), k)
       /\ (Commit(s) /\ \E l \in DOMAIN inv[s].wL : Unresolved(l)) =>
            \A k \in DOMAIN inv[s].wL :
              lessons'[k].status = "published" /\ ~OwnerUnpublished(programs', k)]_vars

\* a cycle has committed a lesson without a resolvable program together with
\* a lesson whose program it cascaded
C17_Witness ==
  \E s \in Slots, l, k \in Lessons :
    /\ inv[s].pc = "finally" /\ inv[s].outcome = "committed"
    /\ l \in inv[s].batch /\ k \in inv[s].batch
    /\ Unresolved(l) /\ lessons[l].status = "published"
    /\ ~Unresolved(k) /\ lessons[k].status = "published"
    /\ programs[ProgramOfTerm(TermOfLesson(k))].status = "published"
    /\ programs[ProgramOfTerm(TermOfLesson(k))].published_at = lessons[k].published_at

\* no runWorker invocation and no lesson handler is in progress
Quiescent == pending = {} /\ \A s \in Slots : inv[s].pc = "idle"

\* C18: when no operation is in progress, no draft or scheduled program owns
\* a published lesson.
C18_NoUnpublishedOwner ==
  Quiescent => \A l \in Lessons : lessons[l].status = "published" => ~OwnerUnpublished(programs, l)

\* ------------------------------------------------------------------
\* GET /catalog/programs (the same handler in every server revision)
\* ------------------------------------------------------------------

\* programs in the store the catalog reads
NumCatPrograms == 2
CatPrograms == 1 .. NumCatPrograms
\* every catalog program has two terms, each with at most one lesson
CatTerms == {1, 2}
\* values of COALESCE(p.published_at, p.created_at), the ORDER BY key
CatKeys == {1, 2}

\* a programs row with its terms' lessons joined in: status, ordering key,
\* whether topic_ids contains the topic a request may ask for, and the
\* status of the lesson under each term ("none": the term has no lesson)
CatProgramRows ==
  [status : {"draft", "published"}, key : CatKeys, topic : BOOLEAN,
   lessons : [CatTerms -> {"none", "published", "archived"}]]

CatalogStores == [CatPrograms -> CatProgramRows]

\* limit = Math.min(parseInt(req.query.limit) || 10, 50)
DefaultLimit == 10
MaxLimit == 50

\* parseInt(req.query.x): NaN for an absent or non-numeric parameter
NaN == [nan |-> TRUE, value |-> 0]
Parsed(v) == [nan |-> FALSE, value |-> v]

\* parseInt(x) || d : NaN and 0 are falsy, every other integer is kept
ParseIntOr(q, d) == IF q.nan \/ q.value = 0 THEN d ELSE q.value

MinOf(a, b) == IF a < b THEN a ELSE b

CatalogOffset(req) == ParseIntOr(req.cursor, 0)
CatalogLimit(req) == MinOf(ParseIntOr(req.limit, DefaultLimit), MaxLimit)

\* the query strings a client sends
QueryCursors == {NaN} \cup {Parsed(v) : v \in {-1} \cup 1 .. NumCatPrograms}
QueryLimits == {NaN} \cup {Parsed(v) : v \in (-1 .. NumCatPrograms) \cup {MaxLimit + 1}}
CatalogRequests == [cursor : QueryCursors, limit : QueryLimits, topic : BOOLEAN]

\* EXISTS (SELECT 1 FROM terms t JOIN lessons l ON l.term_id = t.id
\*         WHERE t.program_id = p.id AND l.status = 'published')
ExistsAnyLesson(store, p) == \E t \in CatTerms : store[p].lessons[t] # "none"
ExistsPublishedLesson(store, p) == \E t \in CatTerms : store[p].lessons[t] = "published"

\* WHERE p.status = 'published' AND EXISTS (...)
CatalogFilter(store, p) == store[p].status = "published" /\ ExistsPublishedLesson(store, p)

\* the rows of the data query: the filter and, if a topic is given,
\* p.topic_ids @> jsonb_build_array(topic)
CatalogMatches(store, req) ==
  {p \in CatPrograms : CatalogFilter(store, p) /\ (req.topic => store[p].topic)}

\* the rows of the count query, which has no topic condition
CatalogCount(store) == Cardinality({p \in CatPrograms : CatalogFilter(store, p)})

\* ORDER BY COALESCE(p.published_at, p.created_at) DESC: every arrangement of
\* the matching rows with non-increasing keys (rows with equal keys come in
\* any order)
CatalogOrders(store, S) ==
  {sq \in [1 .. Cardinality(S) -> S] :
     /\ \A i, j \in 1 .. Cardinality(S) : i # j => sq[i] # sq[j]
     /\ \A i, j \in 1 .. Cardinality(S) : i < j => store[sq[i]].key >= store[sq[j]].key}

\* LIMIT limit OFFSET offset
CatalogPage(sq, offset, limit) == SubSeq(sq, offset + 1, MinOf(offset + limit, Len(sq)))

\* next_cursor: result.rows.length === limit ? offset + limit : null
NextCursorAlways(rows, offset, limit) == offset + limit
NextCursor(rows, offset, limit) == IF Len(rows) = limit THEN offset + limit ELSE NULL

\* res.status(500).json({ error: 'Catalog retrieval failed', ... })
CatalogError == [status |-> 500, data |-> << >>, next_cursor |-> NULL, total |-> 0, limit |-> 0]

\* the responses the handler may send for a request: Postgres rejects a
\* negative LIMIT or OFFSET and the catch block answers 500
CatalogResponses(store, req) ==
  LET offset == CatalogOffset(req)
      limit  == CatalogLimit(req)
  IN  IF offset < 0 \/ limit < 0
      THEN {CatalogError}
      ELSE {[status |-> 200,
             data |-> CatalogPage(sq, offset, limit),
             next_cursor |-> NextCursor(CatalogPage(sq, offset, limit), offset, limit),
             total |-> CatalogCount(store),
             limit |-> limit] : sq \in CatalogOrders(store, CatalogMatches(store, req))}

\* a behaviour of the catalog: the store holds any rows, nothing else runs
InitCatalog ==
  /\ impl = "srvPlain"
  /\ clock = 1
  /\ lessons = [l \in Lessons |-> NoLesson]
  /\ programs = [p \in Programs |-> NewProgram("draft")]
  /\ termProgram = [t \in Terms |-> 1]
  /\ workerRunning = FALSE
  /\ inv = [s \in Slots |-> IdleSlot]
  /\ pending = {}
  /\ ticksOverlap = FALSE
  /\ cleanNow = NULL
  /\ republished = FALSE
  /\ tables = NoTables
  /\ db = NoDb
  /\ catalog \in [store : CatalogStores, request : {NoRequest}, response : {NoResponse},
                  walk : {NoWalk}]

\* app.get('/catalog/programs', ...): one request answered
GetCatalog(req) ==
  /\ \E resp \in CatalogResponses(catalog.store, req) :
       catalog' = [catalog EXCEPT !.request = req, !.response = resp]
  /\ UNCHANGED <<impl, clock, lessons, programs, termProgram, workerRunning, inv,
                 pending, ticksOverlap, db, tables, cleanNow, republished>>

NextCatalog == \E req \in CatalogRequests : GetCatalog(req)

SpecCatalog == InitCatalog /\ [][NextCatalog]_vars

\* a request has been answered with 200
Answered == catalog.response.status = 200

\* the programs in the rows of the last response
Returned == {catalog.response.data[i] : i \in DOMAIN catalog.response.data}

\* the request asks for the whole listing: no topic, offset 0 and a limit
\* that no page of this store can fill
WholeListing ==
  /\ ~catalog.request.topic
  /\ CatalogOffset(catalog.request) = 0
  /\ CatalogLimit(catalog.request) > NumCatPrograms

\* C19: every program in the rows of a response is stored as published and
\* has a published lesson under one of its terms, and a response for the
\* whole listing has a row for every such program. A published program
\* whose lessons are all archived is therefore not returned, and one with a
\* published lesson under one term and an archived lesson under the other is.
C19_CatalogFilter ==
  Answered =>
    /\ \A p \in Returned :
         /\ catalog.store[p].status = "published"
         /\ \E t \in CatTerms : catalog.store[p].lessons[t] = "published"
    /\ WholeListing =>
         \A p \in CatPrograms :
           (/\ catalog.store[p].status = "published"
            /\ \E t \in CatTerms : catalog.store[p].lessons[t] = "published")
             => p \in Returned

\* a whole listing was answered while one published program had only an
\* archived lesson (left out) and another had a published lesson under one
\* term and an archived lesson under the other (returned)
C19_Witness ==
  /\ Answered /\ WholeListing
  /\ \E p, q \in CatPrograms :
       /\ catalog.store[p].status = "published"
       /\ catalog.store[p].lessons = [t \in CatTerms |-> IF t = 1 THEN "archived" ELSE "none"]
       /\ p \notin Returned
       /\ catalog.store[q].status = "published"
       /\ catalog.store[q].lessons = [t \in CatTerms |-> IF t = 1 THEN "published" ELSE "archived"]
       /\ q \in Returned

\* C20: in a response, next_cursor is null exactly when the page has fewer
\* rows than the effective limit, and is the offset plus the limit otherwise.
C20_NextCursor ==
  Answered =>
    LET offset == CatalogOffset(catalog.request)
        limit  == catalog.response.limit
        rows   == Len(catalog.response.data)
    IN  /\ limit = CatalogLimit(catalog.request)
        /\ (catalog.response.next_cursor = NULL) <=> (rows < limit)
        /\ ~(rows < limit) => catalog.response.next_cursor = offset + limit

\* a page after the first was answered full, with the cursor of the page
\* that follows it
C20_WitnessFull ==
  /\ Answered
  /\ Len(catalog.response.data) = catalog.response.limit
  /\ CatalogOffset(catalog.request) > 0
  /\ catalog.response.next_cursor = CatalogOffset(catalog.request) + catalog.response.limit

\* C21: every lesson whose status is scheduled has a publish_at.
C21_ScheduledHasPublishAt ==
  \A l \in Lessons : lessons[l].status = "scheduled" => lessons[l].publish_at # NULL

\* C22: every lesson whose status is published has a published_at.
C22_PublishedHasPublishedAt ==
  \A l \in Lessons : lessons[l].status = "published" => lessons[l].published_at # NULL

\* C23: a published lesson that has a publish_at has a published_at that is not
\* earlier than it.
C23_PublishedAtNotBeforePublishAt ==
  \A l \in Lessons :
    (/\ lessons[l].status = "published"
     /\ lessons[l].publish_at # NULL
     /\ lessons[l].published_at # NULL) =>
      lessons[l].published_at >= lessons[l].publish_at

\* C24: no program has status published with a null published_at.
C24_PublishedProgramHasPublishedAt ==
  \A p \in Programs : programs[p].status = "published" => programs[p].published_at # NULL

\* C25: every move of a program to published made by a publish cycle or by
\* the cascade of a lesson create/update starts from draft or scheduled.
C25_DerivedFromDraftOrScheduled ==
  [][CascadeWrites =>
       \A p \in Programs :
         (programs[p].status # "published" /\ programs'[p].status = "published") =>
           programs[p].status \in {"draft", "scheduled"}]_vars

\* C26: a step that is not the write of a publish cycle moves no lesson from
\* scheduled to published and no program from draft or scheduled to published.
C26_WorkerSoleAgent ==
  [][~CycleWrites =>
       /\ \A l \in Lessons :
            ~(lessons[l].status = "scheduled" /\ lessons'[l].status = "published")
       /\ \A p \in Programs :
            ~(programs[p].status \in {"draft", "scheduled"} /\ programs'[p].status = "published")]_vars

\* C30: a lesson that enters the store enters it with status draft.
C30_CreatedAsDraft ==
  [][\A l \in Lessons :
       (lessons[l].status = "none" /\ lessons'[l].status # "none") =>
         lessons'[l].status = "draft"]_vars

\* ------------------------------------------------------------------
\* Terms and numbered lessons: createTerm, deleteTerm, createLesson,
\* updateLesson, deleteLesson and the SQL statements of the server
\* ------------------------------------------------------------------

NumTermRows == 2
NumLessonRows == 2
TermIds == 1 .. NumTermRows
LessonIds == 1 .. NumLessonRows
\* the programs terms are created under
TermOwners == {1, 2}
TermNumbers == {1, 2}
LessonNumbers == {1, 2}

\* generateId(): an id no stored row has
FreshId(rows, Ids) == CHOOSE i \in Ids : \A r \in rows : r.id # i
CanCreate(rows, Ids) == \E i \in Ids : \A r \in rows : r.id # i

\* the local Database of part_002 checks the constraints; the Database of
\* store.ts and the tables of the server (no UNIQUE on terms or lessons) do not
ChecksUnique(i) == i = "local"

\* checkProgramTermUnique(programId, termNumber) finds a row
TermNumberTaken(rows, p, n) ==
  \E t \in rows : t.program_id = p /\ t.term_number = n

\* checkTermLessonUnique(termId, lessonNumber, lessonId) finds a row
LessonNumberTaken(rows, t, n, id) ==
  \E l \in rows : l.term_id = t /\ l.lesson_number = n /\ l.id # id

\* the call threw (or the request was answered with an error): nothing stored
Rejected ==
  /\ tables' = [tables EXCEPT !.result = "error"]
  /\ UNCHANGED <<impl, clock, lessons, programs, termProgram, workerRunning, inv,
                 pending, ticksOverlap, db, catalog, cleanNow, republished>>

\* the call stored the tables tb
Stored(tb) ==
  /\ tables' = [tb EXCEPT !.result = "ok"]
  /\ UNCHANGED <<impl, clock, lessons, programs, termProgram, workerRunning, inv,
                 pending, ticksOverlap, db, catalog, cleanNow, republished>>

\* createTerm(term) / INSERT INTO terms
CreateTerm(p, n) ==
  /\ CanCreate(tables.terms, TermIds)
  /\ IF ChecksUnique(impl) /\ TermNumberTaken(tables.terms, p, n)
     THEN Rejected
     ELSE Stored([tables EXCEPT !.terms = @ \cup
            {[id |-> FreshId(tables.terms, TermIds), program_id |-> p, term_number |-> n]}])

\* deleteTerm(id) / DELETE FROM terms (lessons: ON DELETE CASCADE)
DeleteTerm(id) ==
  /\ \E t \in tables.terms : t.id = id
  /\ Stored([tables EXCEPT !.terms = {t \in @ : t.id # id},
                           !.lessons = {l \in @ : l.term_id # id}])

\* createLesson(lesson) / INSERT INTO lessons
CreateLessonRow(t, n) ==
  /\ \E r \in tables.terms : r.id = t
  /\ CanCreate(tables.lessons, LessonIds)
  /\ IF ChecksUnique(impl) /\ LessonNumberTaken(tables.lessons, t, n, NULL)
     THEN Rejected
     ELSE Stored([tables EXCEPT !.lessons = @ \cup
            {[id |-> FreshId(tables.lessons, LessonIds), term_id |-> t, lesson_number |-> n]}])

\* updateLesson(lesson) / UPDATE lessons SET term_id, lesson_number, ...
UpdateLessonRow(id, t, n) ==
  /\ \E l \in tables.lessons : l.id = id
  /\ \E r \in tables.terms : r.id = t
  /\ IF ChecksUnique(impl) /\ LessonNumberTaken(tables.lessons, t, n, id)
     THEN Rejected
     ELSE Stored([tables EXCEPT !.lessons = {l \in @ : l.id # id} \cup
            {[id |-> id, term_id |-> t, lesson_number |-> n]}])

\* deleteLesson(id) / DELETE FROM lessons
DeleteLesson(id) ==
  /\ \E l \in tables.lessons : l.id = id
  /\ Stored([tables EXCEPT !.lessons = {l \in @ : l.id # id}])

\* the content tables start empty under one of the three kinds of store
InitContent ==
  /\ impl \in {"srvBulk", "local", "localOld"}
  /\ clock = 1
  /\ lessons = [l \in Lessons |-> NoLesson]
  /\ programs = [p \in Programs |-> NewProgram("draft")]
  /\ termProgram = [t \in Terms |-> 1]
  /\ workerRunning = FALSE
  /\ inv = [s \in Slots |-> IdleSlot]
  /\ pending = {}
  /\ ticksOverlap = FALSE
  /\ cleanNow = NULL
  /\ republished = FALSE
  /\ catalog = NoCatalog
  /\ tables = NoTables
  /\ db = NoDb

NextContent ==
  \/ \E p \in TermOwners, n \in TermNumbers : CreateTerm(p, n)
  \/ \E id \in TermIds : DeleteTerm(id)
  \/ \E t \in TermIds, n \in LessonNumbers : CreateLessonRow(t, n)
  \/ \E id \in LessonIds, t \in TermIds, n \in LessonNumbers : UpdateLessonRow(id, t, n)
  \/ \E id \in LessonIds : DeleteLesson(id)

SpecContent == InitContent /\ [][NextContent]_vars

\* C27: no two stored terms have the same program_id and term_number.
C27_TermNumbersUnique ==
  \A a, b \in tables.terms :
    (a.program_id = b.program_id /\ a.term_number = b.term_number) => a.id = b.id

\* C28: no two stored lessons have the same term_id and lesson_number.
C28_LessonNumbersUnique ==
  \A a, b \in tables.lessons :
    (a.term_id = b.term_id /\ a.lesson_number = b.lesson_number) => a.id = b.id

\* ------------------------------------------------------------------
\* Assets: upsertAsset and POST /api/assets/upsert
\* ------------------------------------------------------------------

NumAssetIds == 3
AssetIds == 1 .. NumAssetIds
\* (parent_id, language, variant, asset_type); two parents and two variants
AssetKeys == [parent_id : {1, 2}, language : {"en"},
              variant : {"portrait", "landscape"}, asset_type : {"thumbnail"}]
AssetUrls == {1, 2}

\* the asset rows of a key
WithKey(rows, k) == {a \in rows : a.key = k}

\* the local Database: this.assets[existingIndex] = {...asset, id: existing id},
\* or this.assets.push({...asset, id: generateId()})
LocalUpsert(rows, k, u, id) ==
  IF WithKey(rows, k) # {}
  THEN LET old == CHOOSE a \in WithKey(rows, k) : TRUE
       IN (rows \ {old}) \cup {[id |-> old.id, key |-> k, url |-> u]}
  ELSE rows \cup {[id |-> id, key |-> k, url |-> u]}

\* INSERT INTO assets ... ON CONFLICT (parent_id, language, variant, asset_type)
\* DO UPDATE SET url = EXCLUDED.url
SqlUpsert(rows, k, u, id) ==
  IF WithKey(rows, k) # {}
  THEN {IF a.key = k THEN [a EXCEPT !.url = u] ELSE a : a \in rows}
  ELSE rows \cup {[id |-> id, key |-> k, url |-> u]}

\* the API client after res.ok: this.assets = this.assets.filter(not the key);
\* this.assets.push({...asset, id})
ClientUpsert(rows, k, u, id) ==
  {a \in rows : a.key # k} \cup {[id |-> id, key |-> k, url |-> u]}

\* upsertAsset(asset); on the server the client sends a generated id with it
UpsertAsset(k, u) ==
  /\ CanCreate(tables.assets \cup tables.cache, AssetIds)
  /\ LET id == FreshId(tables.assets \cup tables.cache, AssetIds)
     IN IF impl \in ServerImpls
        THEN Stored([tables EXCEPT !.assets = SqlUpsert(@, k, u, id),
                                   !.cache = ClientUpsert(@, k, u, id)])
        ELSE Stored([tables EXCEPT !.assets = LocalUpsert(@, k, u, id)])

\* the request is answered with an error: throw new Error('Failed to upsert
\* asset on server')
UpsertAssetFail(k, u) ==
  /\ impl \in ServerImpls
  /\ Rejected

\* deleteLesson(id) of the local Database also drops the lesson's assets
DeleteLessonAssets(parent) ==
  /\ impl \in LocalImpls
  /\ \E a \in tables.assets : a.key.parent_id = parent
  /\ Stored([tables EXCEPT !.assets = {a \in @ : a.key.parent_id # parent}])

NextAssets ==
  \/ \E k \in AssetKeys, u \in AssetUrls : UpsertAsset(k, u)
  \/ \E k \in AssetKeys, u \in AssetUrls : UpsertAssetFail(k, u)
  \/ \E parent \in {1, 2} : DeleteLessonAssets(parent)

SpecAssets == InitContent /\ [][NextAssets]_vars

\* an upsert of (k, u) takes the asset list from old to new as the claim says:
\* one asset per key, the asset of k keeps its id and has url u, and the
\* assets of the other keys are unchanged
UpsertKeeps(old, new, k, u) ==
  /\ \A a, b \in new : a.key = b.key => a = b
  /\ \A a \in WithKey(old, k) : [a EXCEPT !.url = u] \in new
  /\ \A a \in old : a.key # k => a \in new
  /\ \A b \in new : b.key # k => b \in old

\* C29: an upsertAsset call leaves at most one asset per key, keeps the id of
\* the asset whose key it writes and changes only its url, in the assets
\* table and in the list the API client holds.
C29_UpsertKeepsId ==
  [][\A k \in AssetKeys, u \in AssetUrls :
       UpsertAsset(k, u) =>
         /\ UpsertKeeps(tables.assets, tables'.assets, k, u)
         /\ UpsertKeeps(tables.cache, tables'.cache, k, u)]_vars

\* C33: pagination.total of a response equals the number of programs that are
\* stored as published, have a published lesson and, when the request names a
\* topic, have that topic.
C33_TotalMatchesFilter ==
  Answered =>
    catalog.response.total =
      Cardinality({p \in CatPrograms :
                     /\ catalog.store[p].status = "published"
                     /\ \E t \in CatTerms : catalog.store[p].lessons[t] = "published"
                     /\ catalog.request.topic => catalog.store[p].topic})

\* ------------------------------------------------------------------
\* A client paging through the catalog (PublicCatalog.fetchData): the first
\* request has cursor 0, each later one the next_cursor of the last response
\* ------------------------------------------------------------------


\* fetch(`/catalog/programs?cursor=${currentCursor}&limit=${limit}`) answered ok:
\* the client has now been shown the rows of this page as well
FetchData(cursor, limit, rowsBefore) ==
  LET req == [cursor |-> Parsed(cursor), limit |-> Parsed(limit), topic |-> FALSE]
  IN /\ \E resp \in CatalogResponses(catalog.store, req) :
          catalog' = [catalog EXCEPT !.request = req, !.response = resp,
                                     !.walk = [active |-> TRUE,
                                               rows |-> rowsBefore \o resp.data]]
     /\ UNCHANGED <<impl, clock, lessons, programs, termProgram, workerRunning, inv,
                    pending, ticksOverlap, db, tables, cleanNow, republished>>

\* useState(0): the first page
WalkFirst(limit) ==
  /\ ~catalog.walk.active
  /\ FetchData(0, limit, << >>)

\* setCursor(apiResponse.pagination.next_cursor): the button is disabled when
\* next_cursor is null
WalkNext ==
  /\ catalog.walk.active
  /\ catalog.response.next_cursor # NULL
  /\ FetchData(catalog.response.next_cursor, catalog.response.limit, catalog.walk.rows)

NextWalk ==
  \/ \E limit \in 1 .. NumCatPrograms : WalkFirst(limit)
  \/ WalkNext

SpecWalk == InitCatalog /\ [][NextWalk]_vars

\* the client has followed next_cursor until it was null
WalkDone == catalog.walk.active /\ catalog.response.next_cursor = NULL

\* C34: when a client has paged from cursor 0 until next_cursor was null, the
\* rows it was shown hold every program that is published and has a published
\* lesson exactly once and nothing else, and their number is pagination.total.
C34_WalkCoversOnce ==
  WalkDone =>
    LET rows == catalog.walk.rows
    IN /\ \A i, j \in DOMAIN rows : i # j => rows[i] # rows[j]
       /\ {rows[i] : i \in DOMAIN rows} =
            {p \in CatPrograms :
               /\ catalog.store[p].status = "published"
               /\ \E t \in CatTerms : catalog.store[p].lessons[t] = "published"}
       /\ Len(rows) = catalog.response.total

\* ------------------------------------------------------------------
\* Overlapping cycles of the runWorker without a guard (server.js:79-123):
\* setInterval calls it again while the earlier call awaits the store
\* ------------------------------------------------------------------

InitOverlap ==
  /\ impl = "srvPlain"
  /\ clock = 1
  /\ lessons = [l \in Lessons |-> NoLesson]
  /\ programs \in [Programs -> {NewProgram(st) : st \in Statuses}]
  /\ termProgram \in {f \in [Terms -> Programs \cup {NULL}] : f[1] = 1}
  /\ workerRunning = FALSE
  /\ inv = [s \in Slots |-> IdleSlot]
  /\ pending = {}
  /\ ticksOverlap = TRUE
  /\ catalog = NoCatalog
  /\ tables = NoTables
  /\ db = NoDb
  /\ cleanNow = NULL
  /\ republished = FALSE

OverlapWorkerStep(s) ==
  \/ Invoke(s)
  \/ Begin(s)
  \/ ConnectFail(s)
  \/ UpdateLessons(s)
  \/ \E l \in Lessons : CascadeLesson(s, l)
  \/ Commit(s)
  \/ QueryFail(s)
  \/ Rollback(s)
  \/ RollbackFail(s)
  \/ Finally(s)

\* the cycles run against lessons that editors have scheduled
NextOverlap ==
  \/ Tick
  \/ \E s \in Slots : OverlapWorkerStep(s)
  \/ \E l \in Lessons : \E t \in Times : PostLesson(l, "scheduled", t)

SpecOverlap == InitOverlap /\ [][NextOverlap]_vars

\* C31: with overlapping cycles of the runWorker that has no guard, no lesson
\* is in the writes of two cycles; a published lesson's row and a program's
\* published_at are never written again; and what a COMMIT writes is what the
\* cycle's statements make of the committed rows at that moment: every lesson
\* it publishes is still scheduled and due, every program it publishes is
\* still not published, as if the cycle ran alone after the other.
C31_OverlapSerial ==
  [][/\ \A s, o \in Slots : s # o => DOMAIN inv'[s].wL \cap DOMAIN inv'[o].wL = {}
     /\ \A l \in Lessons : lessons[l].status = "published" => lessons'[l] = lessons[l]
     /\ \A p \in Programs :
          programs[p].published_at # NULL =>
            programs'[p].published_at = programs[p].published_at
     /\ \A s \in Slots :
          Commit(s) =>
            /\ \A l \in DOMAIN inv[s].wL :
                 /\ IsDue(lessons[l], inv[s].now)
                 /\ lessons'[l] = PublishLessonRow(lessons[l], inv[s].now)
            /\ \A p \in DOMAIN inv[s].wP :
                 /\ programs[p].status # "published"
                 /\ programs'[p] = PublishProgramRow(programs[p], inv[s].now)]_vars

\* one cycle has committed a batch and has not returned yet while another one,
\* begun at a later instant, holds a batch of its own ready to commit
C31_Witness ==
  \E s, o \in Slots :
    /\ inv[s].pc = "finally" /\ inv[s].outcome = "committed" /\ inv[s].batch # {}
    /\ inv[o].pc = "commit" /\ DOMAIN inv[o].wL # {}
    /\ \E l \in inv[s].batch : lessons[l].published_at < inv[o].now

\* C32: a lesson in the batch a cycle has just committed does not go back to
\* status scheduled.
C32_PublishedStaysPublished ==
  [][\A s \in Slots : \A l \in Lessons :
       (/\ inv[s].pc = "finally" /\ inv[s].outcome = "committed"
        /\ l \in inv[s].batch
        /\ lessons[l].status = "published") =>
         lessons'[l].status # "scheduled"]_vars

\* ------------------------------------------------------------------
\* Database.deleteProgram: the API client of store.ts (with a server
\* revision) and the localStorage Databases
\* ------------------------------------------------------------------

NumDbTerms == 2
NumDbLessons == 2
DbPrograms == {1, 2}
DbTermIds == 1 .. NumDbTerms
DbLessonIds == 1 .. NumDbLessons

\* ids are unique in a list
UniqueIds(rows) == \A a, b \in rows : a.id = b.id => a = b

\* the lists a Database holds after loading a store that keeps its foreign keys
LoadedLists ==
  {[NoDb EXCEPT !.programs = ps, !.terms = ts, !.lessons = ls] :
     ps \in SUBSET DbPrograms,
     ts \in {x \in SUBSET [id : DbTermIds, program_id : DbPrograms] : UniqueIds(x)},
     ls \in {x \in SUBSET [id : DbLessonIds, term_id : DbTermIds] : UniqueIds(x)}}

ForeignKeysHold(d) ==
  /\ \A t \in d.terms : t.program_id \in d.programs
  /\ \A l \in d.lessons : \E t \in d.terms : t.id = l.term_id

\* store.ts:172-182: the terms are filtered first and termIds is then taken
\* from the filtered list
ClientDeleteProgram(d, id) ==
  LET terms1 == {t \in d.terms : t.program_id # id}
      termIds == {t.id : t \in {x \in terms1 : x.program_id = id}}
  IN [d EXCEPT !.programs = @ \ {id},
               !.terms = terms1,
               !.lessons = {l \in @ : l.term_id \notin termIds}]

\* part_002:283-296 and store.ts:455-462: pTerms is taken before the filter
LocalDeleteProgram(d, id) ==
  LET pTerms == {t.id : t \in {x \in d.terms : x.program_id = id}}
  IN [d EXCEPT !.programs = @ \ {id},
               !.terms = {t \in @ : t.program_id # id},
               !.lessons = {l \in @ : l.term_id \notin pTerms}]

DbUnchanged == UNCHANGED <<impl, clock, lessons, programs, termProgram, workerRunning,
                           inv, pending, ticksOverlap, catalog, tables, cleanNow,
                           republished>>

\* deleteProgram(id), the server answering ok for the API client
DeleteProgram(id) ==
  /\ db' = [(IF impl \in ServerImpls THEN ClientDeleteProgram(db, id)
             ELSE LocalDeleteProgram(db, id)) EXCEPT !.result = "ok"]
  /\ DbUnchanged

\* throw new Error('Failed to delete program on server')
DeleteProgramFail(id) ==
  /\ impl \in ServerImpls
  /\ db' = [db EXCEPT !.result = "error"]
  /\ DbUnchanged

InitDelete ==
  /\ impl \in {"srvBulk", "local", "localOld"}
  /\ clock = 1
  /\ lessons = [l \in Lessons |-> NoLesson]
  /\ programs = [p \in Programs |-> NewProgram("draft")]
  /\ termProgram = [t \in Terms |-> 1]
  /\ workerRunning = FALSE
  /\ inv = [s \in Slots |-> IdleSlot]
  /\ pending = {}
  /\ ticksOverlap = FALSE
  /\ cleanNow = NULL
  /\ republished = FALSE
  /\ catalog = NoCatalog
  /\ tables = NoTables
  /\ db \in {d \in LoadedLists : ForeignKeysHold(d)}

NextDelete ==
  \/ \E id \in DbPrograms : DeleteProgram(id)
  \/ \E id \in DbPrograms : DeleteProgramFail(id)

SpecDelete == InitDelete /\ [][NextDelete]_vars

\* C35: after a successful deleteProgram(id) the Database holds no program
\* id, no term of program id and no lesson whose term was a term of program
\* id, and every lesson it holds has its term in the list of terms.
C35_DeleteRemovesSubtree ==
  [][\A id \in DbPrograms :
       DeleteProgram(id) =>
         /\ id \notin db'.programs
         /\ \A t \in db'.terms : t.program_id # id
         /\ \A l \in db'.lessons :
              ~\E t \in db.terms : t.id = l.term_id /\ t.program_id = id
         /\ \A l \in db'.lessons : \E t \in db'.terms : t.id = l.term_id]_vars

\* ------------------------------------------------------------------
\* The API client's periodic reload (store.ts: init, processScheduled)
\* next to createLesson
\* ------------------------------------------------------------------

\* reload rounds that can be in flight
NumRounds == 2
Rounds == 1 .. NumRounds
IdleRound == [pc |-> "idle", snap |-> {}]

\* the lesson a createLesson call sends: a generated id under term 1
NewDbLesson(id) == [id |-> id, term_id |-> 1]

\* processScheduled(): this.isInitialized = false; this.initPromise = null;
\* await this.init(). Called by the interval of App.tsx whether or not the
\* last call has returned. init(): if (this.isInitialized) return;
\* if (this.initPromise) return it; otherwise a new round of fetches starts.
DbProcessScheduled(r) ==
  /\ db.rounds[r].pc = "idle" /\ \A o \in Rounds : o < r => db.rounds[o].pc # "idle"
  /\ LET d == [db EXCEPT !.isInitialized = FALSE, !.initPromise = NULL]
     IN /\ ~d.isInitialized /\ d.initPromise = NULL
        /\ db' = [d EXCEPT !.initPromise = r, !.rounds[r] = [pc |-> "fetch", snap |-> {}]]
  /\ DbUnchanged

\* GET /api/lessons answers with the rows of the table
RoundFetch(r) ==
  /\ db.rounds[r].pc = "fetch"
  /\ db' = [db EXCEPT !.rounds[r] = [pc |-> "assign", snap |-> db.server]]
  /\ DbUnchanged

\* if (!res.ok) return []  /  catch (err) { return [] }
RoundFetchFail(r) ==
  /\ db.rounds[r].pc = "fetch"
  /\ db' = [db EXCEPT !.rounds[r] = [pc |-> "assign", snap |-> {}]]
  /\ DbUnchanged

\* this.lessons = l; this.isInitialized = true
RoundAssign(r) ==
  /\ db.rounds[r].pc = "assign"
  /\ db' = [db EXCEPT !.lessons = db.rounds[r].snap, !.isInitialized = TRUE,
                      !.rounds[r] = IdleRound]
  /\ DbUnchanged

\* createLesson: POST /api/lessons has inserted the row; the answer is on its way
DbCreateLessonPost(id) ==
  /\ \A l \in db.server : l.id # id
  /\ \A o \in DbLessonIds : o < id => \E l \in db.server : l.id = o
  /\ db' = [db EXCEPT !.server = @ \cup {NewDbLesson(id)}, !.sent = @ \cup {id}]
  /\ DbUnchanged

\* if (res.ok) { this.lessons.push(newLesson); return newLesson }
DbCreateLessonAck(id) ==
  /\ id \in db.sent
  /\ db' = [db EXCEPT !.lessons = @ \cup {NewDbLesson(id)}, !.sent = @ \ {id},
                      !.acked = @ \cup {id}]
  /\ DbUnchanged

InitRefresh ==
  /\ impl = "srvBulk"
  /\ clock = 1
  /\ lessons = [l \in Lessons |-> NoLesson]
  /\ programs = [p \in Programs |-> NewProgram("draft")]
  /\ termProgram = [t \in Terms |-> 1]
  /\ workerRunning = FALSE
  /\ inv = [s \in Slots |-> IdleSlot]
  /\ pending = {}
  /\ ticksOverlap = FALSE
  /\ cleanNow = NULL
  /\ republished = FALSE
  /\ catalog = NoCatalog
  /\ tables = NoTables
  /\ db = [NoDb EXCEPT !.rounds = [r \in Rounds |-> IdleRound], !.isInitialized = TRUE]

NextRefresh ==
  \/ \E r \in Rounds : DbProcessScheduled(r)
  \/ \E r \in Rounds : RoundFetch(r)
  \/ \E r \in Rounds : RoundFetchFail(r)
  \/ \E r \in Rounds : RoundAssign(r)
  \/ \E id \in DbLessonIds : DbCreateLessonPost(id)
  \/ \E id \in DbLessonIds : DbCreateLessonAck(id)

SpecRefresh == InitRefresh /\ [][NextRefresh]_vars

\* the reload rounds in flight
InFlight == {r \in Rounds : db.rounds[r].pc # "idle"}

\* C36: at most one reload round is in flight, and when none is in flight
\* every lesson whose creation was acknowledged and applied to the cache is
\* in the cache.
C36_RefreshKeepsWrites ==
  /\ Cardinality(InFlight) <= 1
  /\ InFlight = {} => \A id \in db.acked : \E l \in db.lessons : l.id = id

====
